---- MODULE Spec2Model ----
(***************************************************************************)
(* The CSS selector builder of src/src/05-objects-tasks.js: the class      *)
(* BuilderHelper (lines 119-192) and the facade object cssSelectorBuilder  *)
(* (lines 193-207).                                                        *)
(*                                                                         *)
(* A JavaScript string is modelled as a sequence of one-character strings, *)
(* so that concatenation (+=, template literals) is \o and the rendered    *)
(* punctuation is visible character by character.                         *)
(***************************************************************************)
EXTENDS Integers, Sequences, FiniteSets, TLC

VARIABLES
    builders,   \* the BuilderHelper instances created so far, in creation order
    facade,     \* the cssSelectorBuilder object: its own field res
    results,    \* values returned by combine that the caller still holds
    history,    \* per builder, the fragment calls that returned normally
    lastCall    \* the call just made: what was called, what it threw or returned

vars == <<builders, facade, results, history, lastCall>>

----------------------------------------------------------------------------
(* Bounds of the exploration *)

\* Spec: the life of one builder from the factory call that creates it, its
\* chain explored in depth.  MaxFrags caps the fragments appended; rejected
\* calls are explored at the cap too
MaxFrags == 4

\* SpecFacade: several builders and combine.  FacadeCalls caps the calls that
\* build something: fragments appended plus combine calls made
FacadeBuilders == 2
FacadeCalls == 4

(* The argument strings the calls are made with.  One value carries         *)
(* selector punctuation, to show what embedding does with it.               *)
Values == { <<"a">>, <<":", "b">> }
Combinators == { <<" ">>, <<"+">>, <<>> }

\* SpecFacade needs builders of different texts, not every kind and value
FacadeMethods == {"element", "class"}
FacadeValues == { <<"a">> }

----------------------------------------------------------------------------
(* BuilderHelper: constructor, lines 120-134 *)

Methods == {"element", "id", "class", "attr", "pseudoClass", "pseudoElement"}

\* variant: id left out of the unique selectors
uniqueSelectors_noId == {"element", "pseudoElement"}

\* variant: pseudoElement left out of the unique selectors
uniqueSelectors_noPseudoElement == {"element", "id"}

uniqueSelectors == {"element", "id", "pseudoElement"}

\* variant: pseudoElement given the rank of pseudoClass
order_pseudoTie == [element |-> 0, id |-> 1, class |-> 2, attribute |-> 3,
                    pseudoClass |-> 4, pseudoElement |-> 4]

order == [element |-> 0, id |-> 1, class |-> 2, attribute |-> 3,
          pseudoClass |-> 4, pseudoElement |-> 5]

\* variant: the message with the spelling corrected
firstErr_than == "Element, id and pseudo-element should not occur more than one time inside the selector"

firstErr == "Element, id and pseudo-element should not occur more then one time inside the selector"

secondErr == "Selector parts should be arranged in the following order: element, id, class, attribute, pseudo-class, pseudo-element"

\* no exception: the call returned normally
NoError == "none"

\* the value of a field that was never assigned, as a template literal renders it
Undefined == <<"undefined">>

BuilderHelper == [res |-> <<>>, usedSelectors |-> <<>>]

\* usedSelectors.includes(selector)
includes(arr, x) == \E i \in 1..Len(arr) : arr[i] = x

\* variant: >= in place of >
lastOrderGreater_orEqual(used, selector) ==
    IF Len(used) = 0 THEN FALSE
    ELSE order[used[Len(used)]] >= order[selector]

\* variant: the operands of > exchanged
lastOrderGreater_reversed(used, selector) ==
    IF Len(used) = 0 THEN FALSE
    ELSE order[selector] > order[used[Len(used)]]

\* variant: an empty usedSelectors compared as if its last order were the greatest
lastOrderGreater_emptyIsGreater(used, selector) ==
    IF Len(used) = 0 THEN TRUE
    ELSE order[used[Len(used)]] > order[selector]

\* order[usedSelectors.at(-1)] > order[selector]; on an empty array at(-1) is
\* undefined, order[undefined] is undefined, and undefined > n is false
lastOrderGreater(used, selector) ==
    IF Len(used) = 0 THEN FALSE
    ELSE order[used[Len(used)]] > order[selector]

\* variant: the order check made before the duplicate check
errorHandler_orderFirst(used, selector) ==
    IF Len(used) > 0 /\ order[used[Len(used)]] > order[selector]
    THEN [thrown |-> secondErr, usedSelectors |-> used]
    ELSE IF includes(used, selector) /\ selector \in {"element", "id", "pseudoElement"}
    THEN [thrown |-> firstErr, usedSelectors |-> used]
    ELSE [thrown |-> NoError, usedSelectors |-> Append(used, selector)]

\* variant: the selector pushed before the order check
errorHandler_pushFirst(used, selector) ==
    IF includes(used, selector) /\ selector \in {"element", "id", "pseudoElement"}
    THEN [thrown |-> firstErr, usedSelectors |-> used]
    ELSE IF lastOrderGreater(used, selector)
    THEN [thrown |-> secondErr, usedSelectors |-> Append(used, selector)]
    ELSE [thrown |-> NoError, usedSelectors |-> Append(used, selector)]

\* errorHandler(selector): the exception thrown, if any, and usedSelectors after
errorHandler(used, selector) ==
    IF includes(used, selector) /\ selector \in uniqueSelectors
    THEN [thrown |-> firstErr, usedSelectors |-> used]
    ELSE IF lastOrderGreater(used, selector)
    THEN [thrown |-> secondErr, usedSelectors |-> used]
    ELSE [thrown |-> NoError, usedSelectors |-> Append(used, selector)]

\* the selector tag each fragment method hands to errorHandler
selectorOf(m) == IF m = "attr" THEN "attribute" ELSE m

\* variant: pseudoElement rendered with a single colon
rendered_singleColon(m, value) ==
    CASE m = "element"       -> value
      [] m = "id"            -> <<"#">> \o value
      [] m = "class"         -> <<".">> \o value
      [] m = "attr"          -> <<"[">> \o value \o <<"]">>
      [] m = "pseudoClass"   -> <<":">> \o value
      [] m = "pseudoElement" -> <<":">> \o value

\* what each fragment method appends to res
rendered(m, value) ==
    CASE m = "element"       -> value
      [] m = "id"            -> <<"#">> \o value
      [] m = "class"         -> <<".">> \o value
      [] m = "attr"          -> <<"[">> \o value \o <<"]">>
      [] m = "pseudoClass"   -> <<":">> \o value
      [] m = "pseudoElement" -> <<":", ":">> \o value

\* variant: res extended before errorHandler is called
fragment_appendFirst(obj, m, value) ==
    LET h == errorHandler(obj.usedSelectors, IF m = "attr" THEN "attribute" ELSE m)
        res == obj.res \o (IF m = "element" THEN value
                           ELSE IF m = "id" THEN <<"#">> \o value
                           ELSE IF m = "class" THEN <<".">> \o value
                           ELSE IF m = "attr" THEN <<"[">> \o value \o <<"]">>
                           ELSE IF m = "pseudoClass" THEN <<":">> \o value
                           ELSE <<":", ":">> \o value)
    IN  [thrown |-> h.thrown, obj |-> [res |-> res, usedSelectors |-> h.usedSelectors]]

\* variant: a value that carries selector punctuation is refused
fragment_validating(obj, m, value) ==
    LET h == errorHandler(obj.usedSelectors, IF m = "attr" THEN "attribute" ELSE m) IN
    IF \E i \in 1..Len(value) : value[i] \in {":", "#", ".", "[", "]"}
    THEN [thrown |-> secondErr, obj |-> obj]
    ELSE IF h.thrown # NoError
    THEN [thrown |-> h.thrown,
          obj |-> [res |-> obj.res, usedSelectors |-> h.usedSelectors]]
    ELSE [thrown |-> NoError,
          obj |-> [res |-> obj.res \o (IF m = "element" THEN value
                                       ELSE IF m = "id" THEN <<"#">> \o value
                                       ELSE IF m = "class" THEN <<".">> \o value
                                       ELSE IF m = "attr" THEN <<"[">> \o value \o <<"]">>
                                       ELSE IF m = "pseudoClass" THEN <<":">> \o value
                                       ELSE <<":", ":">> \o value),
                   usedSelectors |-> h.usedSelectors]]

\* a fragment method m(value) run on the object obj: errorHandler first, and
\* only when it returns is res extended
fragment(obj, m, value) ==
    LET h == errorHandler(obj.usedSelectors, selectorOf(m)) IN
    IF h.thrown # NoError
    THEN [thrown |-> h.thrown,
          obj |-> [res |-> obj.res, usedSelectors |-> h.usedSelectors]]
    ELSE [thrown |-> NoError,
          obj |-> [res |-> obj.res \o rendered(m, value),
                   usedSelectors |-> h.usedSelectors]]

\* stringify() of a builder
stringify(obj) == obj.res

\* variant: the combinator not padded
combineText_noPadding(res1, combinator, res2) == res1 \o combinator \o res2

\* the string combine assigns: `${selector1.res} ${combinator} ${selector2.res}`
combineText(res1, combinator, res2) ==
    res1 \o <<" ">> \o combinator \o <<" ">> \o res2

----------------------------------------------------------------------------
(* State *)

\* a reference to the builder number b, as a fragment method returns it (return this)
BuilderRef(b) == [kind |-> "builder", idx |-> b]

\* a reference to the facade as the combine call number i returned it
ResultRef(i) == [kind |-> "result", idx |-> i]

Call(op, target, m, thrown, ret) ==
    [op |-> op, target |-> target, method |-> m, thrown |-> thrown, ret |-> ret]

Init ==
    /\ builders = <<>>
    /\ facade = [res |-> Undefined]
    /\ results = <<>>
    /\ history = <<>>
    /\ lastCall = Call("init", 0, "", NoError, <<>>)

\* variant: the state of the new builder shared with the builder made before it
Factory_sharedState(m, value) ==
    /\ LET old == IF builders = <<>> THEN BuilderHelper ELSE builders[Len(builders)]
           r == fragment(old, m, value)
       IN
       /\ builders' = IF r.thrown = NoError THEN Append(builders, r.obj) ELSE builders
       /\ history' = IF r.thrown = NoError
                     THEN Append(history, << <<m, value>> >>) ELSE history
       /\ lastCall' = Call("factory", IF r.thrown = NoError THEN Len(builders) + 1 ELSE 0,
                           m, r.thrown,
                           IF r.thrown = NoError THEN BuilderRef(Len(builders) + 1) ELSE <<>>)
    /\ UNCHANGED <<facade, results>>

\* cssSelectorBuilder.<m>(value): new BuilderHelper().<m>(value), lines 194-199
Factory(m, value) ==
    /\ LET r == fragment(BuilderHelper, m, value) IN
       /\ builders' = IF r.thrown = NoError THEN Append(builders, r.obj) ELSE builders
       /\ history' = IF r.thrown = NoError
                     THEN Append(history, << <<m, value>> >>) ELSE history
       /\ lastCall' = Call("factory", IF r.thrown = NoError THEN Len(builders) + 1 ELSE 0,
                           m, r.thrown,
                           IF r.thrown = NoError THEN BuilderRef(Len(builders) + 1) ELSE <<>>)
    /\ UNCHANGED <<facade, results>>

\* variant: the method leaves its receiver alone and returns an extended copy
FragmentCall_copy(b, m, value) ==
    /\ b \in 1..Len(builders)
    /\ LET r == fragment(builders[b], m, value) IN
       /\ builders' = IF r.thrown = NoError THEN Append(builders, r.obj) ELSE builders
       /\ history' = IF r.thrown = NoError
                     THEN Append(history, Append(history[b], <<m, value>>)) ELSE history
       /\ lastCall' = Call("fragment", b, m, r.thrown,
                           IF r.thrown = NoError THEN BuilderRef(Len(builders) + 1) ELSE <<>>)
    /\ UNCHANGED <<facade, results>>

\* builder.<m>(value) on an existing builder, lines 140-174
FragmentCall(b, m, value) ==
    /\ b \in 1..Len(builders)
    /\ LET r == fragment(builders[b], m, value) IN
       /\ builders' = [builders EXCEPT ![b] = r.obj]
       /\ history' = IF r.thrown = NoError
                     THEN [history EXCEPT ![b] = Append(@, <<m, value>>)] ELSE history
       /\ lastCall' = Call("fragment", b, m, r.thrown,
                           IF r.thrown = NoError THEN BuilderRef(b) ELSE <<>>)
    /\ UNCHANGED <<facade, results>>

\* variant: stringify hands out the text and empties the buffer
Stringify_flushes(b) ==
    /\ b \in 1..Len(builders)
    /\ lastCall' = Call("stringify", b, "", NoError, stringify(builders[b]))
    /\ builders' = [builders EXCEPT ![b].res = <<>>]
    /\ UNCHANGED <<facade, results, history>>

\* builder.stringify(), lines 136-138
Stringify(b) ==
    /\ b \in 1..Len(builders)
    /\ lastCall' = Call("stringify", b, "", NoError, stringify(builders[b]))
    /\ UNCHANGED <<builders, facade, results, history>>

\* cssSelectorBuilder.stringify(), lines 204-206: the facade's own res
FacadeStringify ==
    /\ lastCall' = Call("facadeStringify", 0, "", NoError, facade.res)
    /\ UNCHANGED <<builders, facade, results, history>>

(* The operands of combine.  An operand is a reference: to a builder, or to *)
(* what an earlier combine returned, which is the facade object itself       *)
(* (line 202, return this).  The caller evaluates the argument expressions   *)
(* left to right, so the results it holds form a stack: a result operand is  *)
(* the newest held result, and two result operands are the two newest.       *)
\* selector.res as combine reads it
resOf(ref) == IF ref.kind = "builder" THEN builders[ref.idx].res ELSE facade.res

\* the text of the leaves under an operand, in order, with padded combinators
leavesOf(ref) ==
    IF ref.kind = "builder" THEN builders[ref.idx].res ELSE results[ref.idx].leaves

sizeOf(ref) == IF ref.kind = "builder" THEN 0 ELSE results[ref.idx].size

\* the operand pairs an expression can supply in the current state
OperandPairs ==
    LET n == Len(results)
        B == {BuilderRef(b) : b \in 1..Len(builders)}
    IN  (B \X B)
        \cup (IF n >= 1 THEN ({ResultRef(n)} \X B) \cup (B \X {ResultRef(n)}) ELSE {})
        \cup (IF n >= 2 THEN {<<ResultRef(n - 1), ResultRef(n)>>} ELSE {})

\* the held results after the operands of this call are consumed
remaining(l, r) ==
    LET used == (IF l.kind = "result" THEN 1 ELSE 0) + (IF r.kind = "result" THEN 1 ELSE 0)
    IN  SubSeq(results, 1, Len(results) - used)

\* cssSelectorBuilder.combine(selector1, combinator, selector2), lines 200-203
Combine(l, combinator, r) ==
    /\ <<l, r>> \in OperandPairs
    /\ LET text == combineText(resOf(l), combinator, resOf(r)) IN
       /\ facade' = [facade EXCEPT !.res = text]
       /\ results' = Append(remaining(l, r),
                            [text |-> text,
                             leaves |-> combineText(leavesOf(l), combinator, leavesOf(r)),
                             size |-> sizeOf(l) + sizeOf(r) + 1])
       /\ lastCall' = Call("combine", 0, "", NoError, <<l, combinator, r>>)
    /\ UNCHANGED <<builders, history>>

----------------------------------------------------------------------------
(* Specifications *)

RECURSIVE totalFrags(_)
totalFrags(bs) ==
    IF bs = <<>> THEN 0 ELSE Len(Head(bs).usedSelectors) + totalFrags(Tail(bs))

\* the combine calls made: every result is held or is part of a held one
RECURSIVE heldSize(_)
heldSize(rs) == IF rs = <<>> THEN 0 ELSE Head(rs).size + heldSize(Tail(rs))

\* the call m on obj is rejected by errorHandler
rejects(obj, m) == errorHandler(obj.usedSelectors, selectorOf(m)).thrown # NoError

Next ==
    \/ \E m \in Methods, v \in Values :
          /\ builders = <<>>
          /\ Factory(m, v)
    \/ \E b \in 1..Len(builders), m \in Methods, v \in Values :
          /\ totalFrags(builders) < MaxFrags \/ rejects(builders[b], m)
          /\ FragmentCall(b, m, v)
    \/ \E b \in 1..Len(builders) : Stringify(b)
    \/ FacadeStringify

Spec == Init /\ [][Next]_vars

NextFacade ==
    \/ \E m \in FacadeMethods, v \in FacadeValues :
          /\ Len(builders) < FacadeBuilders
          /\ totalFrags(builders) + heldSize(results) < FacadeCalls
          /\ Factory(m, v)
    \/ \E b \in 1..FacadeBuilders, m \in FacadeMethods, v \in FacadeValues :
          /\ b <= Len(builders)
          /\ totalFrags(builders) + heldSize(results) < FacadeCalls
                \/ rejects(builders[b], m)
          /\ FragmentCall(b, m, v)
    \/ \E b \in 1..FacadeBuilders : Stringify(b)
    \/ FacadeStringify
    \/ \E p \in OperandPairs, c \in Combinators :
          /\ totalFrags(builders) + heldSize(results) < FacadeCalls
          /\ Combine(p[1], c, p[2])

SpecFacade == Init /\ [][NextFacade]_vars

----------------------------------------------------------------------------
(* Vocabulary of the properties: the rank table, the singleton kinds and    *)
(* the rendered forms as the specification words them, by fragment method.  *)

RankOf(m) ==
    CASE m = "element"       -> 0
      [] m = "id"            -> 1
      [] m = "class"         -> 2
      [] m = "attr"          -> 3
      [] m = "pseudoClass"   -> 4
      [] m = "pseudoElement" -> 5

SingletonMethods == {"element", "id", "pseudoElement"}

FormOf(m, value) ==
    IF m = "element" THEN value
    ELSE IF m = "id" THEN <<"#">> \o value
    ELSE IF m = "class" THEN <<".">> \o value
    ELSE IF m = "attr" THEN <<"[">> \o value \o <<"]">>
    ELSE IF m = "pseudoClass" THEN <<":">> \o value
    ELSE <<":", ":">> \o value

\* the fragment methods of a history, in call order
methodsOf(h) == [i \in 1..Len(h) |-> h[i][1]]

RECURSIVE Concat(_)
Concat(h) == IF h = <<>> THEN <<>> ELSE FormOf(h[1][1], h[1][2]) \o Concat(Tail(h))

\* ranks non-decreasing, element, id and pseudoElement at most once
ValidSequence(ms) ==
    /\ \A i \in 1..Len(ms), j \in 1..Len(ms) : i < j => RankOf(ms[i]) <= RankOf(ms[j])
    /\ \A i \in 1..Len(ms), j \in 1..Len(ms) :
          (i # j /\ ms[i] = ms[j]) => ms[i] \notin SingletonMethods

Applied(h, m) == \E i \in 1..Len(h) : h[i][1] = m

LastRank(h) == RankOf(h[Len(h)][1])

Failed == lastCall.thrown # NoError

DuplicateSingletonError == firstErr
OrderViolationError == secondErr

\* a fragment call on an existing builder has just been made
FragmentStep == lastCall'.op = "fragment"

----------------------------------------------------------------------------
(* C1: a sequence of fragment calls on one builder with non-decreasing      *)
(* ranks and each of element, id, pseudoElement at most once never has a    *)
(* failing call, and the builder's text, which stringify() returns, is the  *)
(* concatenation in call order of the rendered fragments, no separators.    *)
C1_ValidChainConcatenates ==
    /\ \A b \in 1..Len(builders) : builders[b].res = Concat(history[b])
    /\ lastCall.op = "stringify" => lastCall.ret = Concat(history[lastCall.target])
    /\ (lastCall.op = "fragment" /\ Failed) =>
          ~ValidSequence(Append(methodsOf(history[lastCall.target]), lastCall.method))
    /\ (lastCall.op = "factory" /\ Failed) => ~ValidSequence(<<lastCall.method>>)

C1_Witness ==
    /\ lastCall.op = "stringify"
    /\ Len(history[lastCall.target]) >= 3
    /\ Cardinality({history[lastCall.target][i][1] : i \in 1..3}) = 3
    /\ lastCall.ret = Concat(history[lastCall.target])

(* C2: a call of element, id or pseudoElement on a builder on which that    *)
(* same method already succeeded fails with DuplicateSingletonError,        *)
(* whatever was called in between.                                          *)
C2_SecondSingletonFails ==
    [][ (/\ FragmentStep
         /\ lastCall'.method \in SingletonMethods
         /\ Applied(history[lastCall'.target], lastCall'.method))
        => lastCall'.thrown = DuplicateSingletonError ]_vars

C2_Witness ==
    /\ lastCall.op = "fragment"
    /\ lastCall.thrown = DuplicateSingletonError
    /\ lastCall.method = "id"
    /\ Len(history[lastCall.target]) >= 3
    /\ history[lastCall.target][1][1] = "id"

(* C3: a fragment call whose kind is not an already applied singleton fails *)
(* with OrderViolationError exactly when its rank is lower than the rank of *)
(* the most recently appended kind; no call whose rank is at least the last *)
(* rank raises OrderViolationError.                                         *)
C3_OrderViolationExactly ==
    [][ FragmentStep =>
        LET h == history[lastCall'.target]
            m == lastCall'.method
        IN  /\ ~(m \in SingletonMethods /\ Applied(h, m)) =>
                  (lastCall'.thrown = OrderViolationError <=> RankOf(m) < LastRank(h))
            /\ RankOf(m) >= LastRank(h) => lastCall'.thrown # OrderViolationError ]_vars

C3_Witness ==
    /\ lastCall.op = "fragment"
    /\ lastCall.thrown = OrderViolationError
    /\ ~Applied(history[lastCall.target], lastCall.method)
    /\ RankOf(lastCall.method) < LastRank(history[lastCall.target])

(* C4: a failing fragment call leaves the builder's text and applied kinds  *)
(* exactly as they were before the call.                                    *)
C4_FailureMutatesNothing ==
    [][ (FragmentStep /\ lastCall'.thrown # NoError) =>
        /\ builders'[lastCall'.target].res = builders[lastCall'.target].res
        /\ builders'[lastCall'.target].usedSelectors
              = builders[lastCall'.target].usedSelectors
        /\ stringify(builders'[lastCall'.target]) = stringify(builders[lastCall'.target]) ]_vars

C4_Witness ==
    /\ lastCall.op = "fragment"
    /\ Failed
    /\ Len(builders[lastCall.target].usedSelectors) >= 2
    /\ builders[lastCall.target].res = Concat(history[lastCall.target])

(* C5: combine of two builders yields the left text, one space, the         *)
(* combinator, one space, the right text, for every combinator (" " gives   *)
(* three spaces, "" gives two); it never fails, and stringify() of the      *)
(* returned value gives that text.                                          *)
PaddedJoin(left, combinator, right) == left \o <<" ">> \o combinator \o <<" ">> \o right

C5_CombineOfBuilders ==
    [][ /\ (/\ lastCall'.op = "combine"
            /\ lastCall'.ret[1].kind = "builder"
            /\ lastCall'.ret[3].kind = "builder")
           => /\ lastCall'.thrown = NoError
              /\ facade'.res = PaddedJoin(builders[lastCall'.ret[1].idx].res,
                                          lastCall'.ret[2],
                                          builders[lastCall'.ret[3].idx].res)
        /\ (lastCall.op = "combine" /\ lastCall'.op = "facadeStringify")
           => lastCall'.ret = facade.res ]_vars

C5_Witness ==
    /\ lastCall.op = "combine"
    /\ lastCall.ret[1].kind = "builder"
    /\ lastCall.ret[3].kind = "builder"
    /\ lastCall.ret[1].idx # lastCall.ret[3].idx
    /\ lastCall.ret[2] = <<" ">>
    /\ builders[1].res # builders[2].res
    /\ facade.res = builders[lastCall.ret[1].idx].res \o <<" ", " ", " ">>
                       \o builders[lastCall.ret[3].idx].res

(* C6: for every expression tree of combine calls, whichever operands are   *)
(* themselves combine results, the text of the outermost result is the      *)
(* in-order concatenation of the leaf builders' texts with every combinator *)
(* padded by one space on each side.                                        *)
C6_NestedCombineComposes ==
    lastCall.op = "combine" => facade.res = results[Len(results)].leaves

(* C7: stringify() of a value returned by combine keeps returning the text  *)
(* that combine call computed, whatever facade calls are made later.        *)
C7_CombineResultIsFinal ==
    \A i \in 1..Len(results) : facade.res = results[i].text

(* C8: the two failures carry fixed messages.  As the specification words   *)
(* them: "element, id and pseudo-element should not occur more than one     *)
(* time inside the selector" for the duplicate and "selector parts should   *)
(* be arranged in the following order: ..." for the order violation.        *)
SpecDuplicateMessage == "element, id and pseudo-element should not occur more than one time inside the selector"
SpecOrderMessage == "selector parts should be arranged in the following order: element, id, class, attribute, pseudo-class, pseudo-element"

\* the failed call was a second element, id or pseudoElement
FailedAsDuplicate ==
    /\ lastCall.op = "fragment"
    /\ Failed
    /\ lastCall.method \in SingletonMethods
    /\ Applied(history[lastCall.target], lastCall.method)

\* the failed call was of lower rank than the last appended kind, and no duplicate
FailedAsOrder ==
    /\ lastCall.op = "fragment"
    /\ Failed
    /\ ~(lastCall.method \in SingletonMethods
         /\ Applied(history[lastCall.target], lastCall.method))

C8_SpecMessages ==
    /\ FailedAsDuplicate => lastCall.thrown = SpecDuplicateMessage
    /\ FailedAsOrder => lastCall.thrown = SpecOrderMessage

(* C8 as amended: the duplicate failure carries "Element, id and            *)
(* pseudo-element should not occur more then one time inside the selector"  *)
(* and the order failure carries "Selector parts should be arranged in the  *)
(* following order: element, id, class, attribute, pseudo-class,            *)
(* pseudo-element".                                                         *)
C8_CodeMessages ==
    /\ FailedAsDuplicate =>
          lastCall.thrown = "Element, id and pseudo-element should not occur more then one time inside the selector"
    /\ FailedAsOrder =>
          lastCall.thrown = "Selector parts should be arranged in the following order: element, id, class, attribute, pseudo-class, pseudo-element"

C8_Witness ==
    /\ FailedAsDuplicate
    /\ lastCall.method = "pseudoElement"
    /\ lastCall.thrown = firstErr

(* C9: a call that is both a second singleton and of lower rank than the    *)
(* last appended kind raises DuplicateSingletonError, not                   *)
(* OrderViolationError.                                                     *)
C9_DuplicateCheckedFirst ==
    [][ (/\ FragmentStep
         /\ lastCall'.method \in SingletonMethods
         /\ Applied(history[lastCall'.target], lastCall'.method)
         /\ RankOf(lastCall'.method) < LastRank(history[lastCall'.target]))
        => (/\ lastCall'.thrown = DuplicateSingletonError
            /\ lastCall'.thrown # OrderViolationError) ]_vars

C9_Witness ==
    /\ lastCall.op = "fragment"
    /\ lastCall.method = "element"
    /\ methodsOf(history[lastCall.target]) = <<"element", "class">>
    /\ lastCall.thrown = DuplicateSingletonError

(* C10: in every reachable state the ranks of every builder's applied kinds *)
(* are non-decreasing along the sequence.                                   *)
KindRank(k) ==
    CASE k = "element"       -> 0
      [] k = "id"            -> 1
      [] k = "class"         -> 2
      [] k = "attribute"     -> 3
      [] k = "pseudoClass"   -> 4
      [] k = "pseudoElement" -> 5

C10_RanksNonDecreasing ==
    \A b \in 1..Len(builders) :
        \A i \in 1..Len(builders[b].usedSelectors) :
            \A j \in 1..Len(builders[b].usedSelectors) :
                i < j => KindRank(builders[b].usedSelectors[i])
                            <= KindRank(builders[b].usedSelectors[j])

C10_Witness ==
    /\ lastCall.op = "fragment"
    /\ Failed
    /\ Len(builders[lastCall.target].usedSelectors) >= 3
    /\ KindRank(builders[lastCall.target].usedSelectors[1])
          < KindRank(builders[lastCall.target].usedSelectors[3])
(* C11: in every reachable state each of element, id and pseudoElement      *)
(* occurs at most once in a builder's applied kinds, so at most three       *)
(* entries are singletons; class, attribute and pseudoClass are never       *)
(* refused as duplicates and may repeat.                                    *)
SingletonKinds == {"element", "id", "pseudoElement"}

Count(seq, k) == Cardinality({i \in 1..Len(seq) : seq[i] = k})

C11_SingletonsAtMostOnce ==
    /\ \A b \in 1..Len(builders) :
          /\ \A k \in SingletonKinds : Count(builders[b].usedSelectors, k) <= 1
          /\ Cardinality({i \in 1..Len(builders[b].usedSelectors) :
                             builders[b].usedSelectors[i] \in SingletonKinds}) <= 3
    /\ (lastCall.op = "fragment" /\ lastCall.method \notin SingletonMethods)
          => lastCall.thrown # DuplicateSingletonError

C11_Witness ==
    /\ lastCall.op = "fragment"
    /\ lastCall.thrown = DuplicateSingletonError
    /\ Count(builders[lastCall.target].usedSelectors, "element") = 1
    /\ Count(builders[lastCall.target].usedSelectors, "class") = 2

(* C12: in every reachable state with applied kinds, the rank of the last   *)
(* applied kind is the maximum rank applied, so a validator comparing with  *)
(* the maximum accepts and rejects exactly the calls errorHandler does.     *)
MaxRank(used) ==
    CHOOSE r \in {KindRank(used[i]) : i \in 1..Len(used)} :
        \A i \in 1..Len(used) : KindRank(used[i]) <= r

\* the outcome of a validator that compares with the maximum rank applied
maxValidator(used, k) ==
    IF Count(used, k) > 0 /\ k \in SingletonKinds THEN DuplicateSingletonError
    ELSE IF Len(used) > 0 /\ MaxRank(used) > KindRank(k) THEN OrderViolationError
    ELSE NoError

C12_LastRankIsMaxRank ==
    \A b \in 1..Len(builders) :
        LET used == builders[b].usedSelectors IN
        /\ Len(used) > 0 => KindRank(used[Len(used)]) = MaxRank(used)
        /\ \A m \in Methods :
              errorHandler(used, selectorOf(m)).thrown = maxValidator(used, selectorOf(m))

C12_Witness ==
    /\ lastCall.op = "fragment"
    /\ lastCall.thrown = OrderViolationError
    /\ Len(builders[lastCall.target].usedSelectors) = 3
    /\ KindRank(builders[lastCall.target].usedSelectors[1])
          < KindRank(builders[lastCall.target].usedSelectors[2])
    /\ KindRank(builders[lastCall.target].usedSelectors[2])
          < KindRank(builders[lastCall.target].usedSelectors[3])
(* C13: builders are independent.  A facade factory call adds a fresh       *)
(* builder that holds exactly the one fragment of the call, and a fragment  *)
(* call on one builder, a factory call or a combine call leaves the text    *)
(* and applied kinds of every other existing builder, combine's operands    *)
(* included, unchanged.                                                     *)
C13_BuildersIndependent ==
    [][ /\ lastCall'.op = "factory" =>
              LET n == Len(builders') IN
              /\ n = Len(builders) + 1
              /\ lastCall'.ret = BuilderRef(n)
              /\ Len(builders'[n].usedSelectors) = 1
              /\ Len(history'[n]) = 1
              /\ history'[n][1][1] = lastCall'.method
              /\ builders'[n].res = FormOf(lastCall'.method, history'[n][1][2])
              /\ \A b \in 1..Len(builders) : builders'[b] = builders[b]
        /\ lastCall'.op = "fragment" =>
              /\ Len(builders') = Len(builders)
              /\ \A b \in 1..Len(builders) :
                    b # lastCall'.target => builders'[b] = builders[b]
        /\ lastCall'.op = "combine" => builders' = builders ]_vars

C13_Witness ==
    /\ Len(builders) = 2
    /\ Len(results) >= 1
    /\ lastCall.op = "fragment"
    /\ ~Failed
    /\ lastCall.target = 2
    /\ Len(builders[1].usedSelectors) = 1
    /\ builders[1].res # builders[2].res
(* C14: stringify() of a builder is a pure read.  It returns the text and   *)
(* changes neither the text nor the applied kinds, so a further call        *)
(* returns the same string and the fragment calls accepted afterwards are   *)
(* the same; on a builder without fragments it returns the empty string.    *)
C14_StringifyIsPureRead ==
    [][ lastCall'.op = "stringify" =>
          LET t == lastCall'.target IN
          /\ lastCall'.thrown = NoError
          /\ lastCall'.ret = builders[t].res
          /\ builders' = builders
          /\ stringify(builders'[t]) = lastCall'.ret
          /\ \A m \in Methods :
                errorHandler(builders'[t].usedSelectors, selectorOf(m)).thrown
                   = errorHandler(builders[t].usedSelectors, selectorOf(m)).thrown
          /\ stringify(BuilderHelper) = <<>> ]_vars

C14_Witness ==
    /\ lastCall.op = "stringify"
    /\ Len(history[lastCall.target]) = 2
    /\ lastCall.ret # <<>>
    /\ lastCall.ret = builders[lastCall.target].res
(* C15: a successful fragment call mutates its receiver in place and        *)
(* returns that same instance, not a copy: the receiver itself shows the    *)
(* appended fragment through stringify(), and the returned builder carries  *)
(* the whole sequence of applied kinds, against which a chained call is     *)
(* validated.                                                               *)
KindOf(m) == IF m = "attr" THEN "attribute" ELSE m

C15_MutatesInPlaceReturnsThis ==
    [][ (lastCall'.op = "fragment" /\ lastCall'.thrown = NoError) =>
          LET t == lastCall'.target
              last == history'[t][Len(history'[t])]
          IN  /\ lastCall'.ret = BuilderRef(t)
              /\ Len(builders') = Len(builders)
              /\ history'[t] = Append(history[t], last)
              /\ last[1] = lastCall'.method
              /\ stringify(builders'[t]) = stringify(builders[t]) \o FormOf(last[1], last[2])
              /\ builders'[lastCall'.ret.idx].usedSelectors
                    = Append(builders[t].usedSelectors, KindOf(lastCall'.method)) ]_vars

C15_Witness ==
    /\ lastCall.op = "fragment"
    /\ ~Failed
    /\ lastCall.ret = BuilderRef(lastCall.target)
    /\ Len(history[lastCall.target]) = 3
    /\ Len(builders[lastCall.target].usedSelectors) = 3
(* C16: once pseudoElement has succeeded on a builder the builder is        *)
(* closed.  Every later fragment call on it fails: pseudoElement and an     *)
(* already applied element or id with DuplicateSingletonError, every other  *)
(* kind with OrderViolationError; its text and applied kinds never change   *)
(* again, whatever is called.                                               *)
Closed(b) == Applied(history[b], "pseudoElement")

C16_ClosedAfterPseudoElement ==
    [][ /\ (FragmentStep /\ Closed(lastCall'.target)) =>
              /\ lastCall'.thrown # NoError
              /\ IF /\ lastCall'.method \in SingletonMethods
                    /\ Applied(history[lastCall'.target], lastCall'.method)
                 THEN lastCall'.thrown = DuplicateSingletonError
                 ELSE lastCall'.thrown = OrderViolationError
        /\ \A b \in 1..Len(builders) : Closed(b) => builders'[b] = builders[b] ]_vars

C16_Witness ==
    /\ lastCall.op = "fragment"
    /\ lastCall.method = "element"
    /\ lastCall.thrown = OrderViolationError
    /\ methodsOf(history[lastCall.target]) = <<"class", "pseudoElement">>
(* C17: the first fragment call on a freshly created builder succeeds for   *)
(* each of the six kinds, so no facade factory call ever raises             *)
(* DuplicateSingletonError or OrderViolationError.                          *)
C17_FirstCallSucceeds ==
    /\ \A m \in Methods, v \in Values :
          /\ errorHandler(BuilderHelper.usedSelectors, selectorOf(m)).thrown = NoError
          /\ fragment(BuilderHelper, m, v).thrown = NoError
    /\ lastCall.op = "factory" =>
          /\ lastCall.thrown \notin {DuplicateSingletonError, OrderViolationError}
          /\ lastCall.thrown = NoError
          /\ lastCall.ret = BuilderRef(lastCall.target)
          /\ lastCall.target = Len(builders)

C17_Witness ==
    /\ lastCall.op = "factory"
    /\ lastCall.method = "pseudoElement"
    /\ ~Failed
    /\ builders[lastCall.target].usedSelectors = <<"pseudoElement">>

(* C18: whether a fragment call succeeds or fails, and with which error, is *)
(* a function of the call's kind and of the kinds of the earlier successful *)
(* calls on the builder alone; it does not depend on the values passed, and *)
(* the values are embedded verbatim, without validation.                    *)
Outcome(kinds, m) ==
    IF m \in SingletonMethods /\ (\E i \in 1..Len(kinds) : kinds[i] = m)
    THEN DuplicateSingletonError
    ELSE IF Len(kinds) > 0 /\ RankOf(kinds[Len(kinds)]) > RankOf(m)
    THEN OrderViolationError
    ELSE NoError

\* the kinds of the successful calls made on the target before the last call
KindsBefore ==
    LET ms == methodsOf(history[lastCall.target]) IN
    IF Failed THEN ms ELSE SubSeq(ms, 1, Len(ms) - 1)

C18_OutcomeDependsOnKindsOnly ==
    /\ lastCall.op = "fragment" => lastCall.thrown = Outcome(KindsBefore, lastCall.method)
    /\ lastCall.op = "factory" => lastCall.thrown = Outcome(<<>>, lastCall.method)
    /\ \A b \in 1..Len(builders) :
          \A m \in Methods, v \in Values, w \in Values :
                /\ fragment(builders[b], m, v).thrown = fragment(builders[b], m, w).thrown
                /\ fragment(builders[b], m, v).thrown = Outcome(methodsOf(history[b]), m)
                /\ fragment(builders[b], m, v).thrown = NoError =>
                      fragment(builders[b], m, v).obj.res = builders[b].res \o FormOf(m, v)

C18_Witness ==
    /\ lastCall.op = "fragment"
    /\ ~Failed
    /\ Len(history[lastCall.target]) = 2
    /\ history[lastCall.target][1][2] = <<"a">>
    /\ history[lastCall.target][2] = <<"class", <<":", "b">>>>
    /\ builders[lastCall.target].res = <<"a", ".", ":", "b">>
====
